---- MODULE Spec2Model ----
(***************************************************************************)
(* Six independent Flask services over three CSV files (aids.csv,          *)
(* malaria_data.csv, data.csv).  A behaviour is a run of ONE service       *)
(* process: Init chooses the service and the content of the file it reads; *)
(* every request handler is one action.  The only module-level mutable    *)
(* state of a charts process is pyplot's figure registry.                  *)
(*                                                                         *)
(* Strings are sequences of one-character strings; a missing value (None,  *)
(* NaN) is a one-element sequence holding a longer token.                  *)
(***************************************************************************)
EXTENDS Integers, Sequences, FiniteSets, TLC

VARIABLES service, csv, figs, request, response, threads

vars == <<service, csv, figs, request, response, threads>>

---------------------------------------------------------------------------
(* Bounds of the model *)
MaxRows == 2
MaxCells == 2
MaxFigs == 2
MaxThreads == 2

---------------------------------------------------------------------------
(* Strings *)
NaN == <<"NaN">>
None == <<"None">>

Digits == {"0", "1", "2"}

DigitVal(c) == CASE c = "0" -> 0 [] c = "1" -> 1 [] c = "2" -> 2 [] OTHER -> 0

Ord(c) ==
  CASE c = " " -> 32 [] c = "(" -> 40 [] c = ")" -> 41 [] c = "," -> 44
    [] c = "." -> 46 [] c = "0" -> 48 [] c = "1" -> 49 [] c = "2" -> 50
    [] c = "A" -> 65 [] c = "B" -> 66 [] c = "a" -> 97 [] c = "b" -> 98
    [] c = "x" -> 120 [] OTHER -> 200

LowerChar(c) == CASE c = "A" -> "a" [] c = "B" -> "b" [] OTHER -> c

lower(s) == [i \in 1..Len(s) |-> LowerChar(s[i])]

RECURSIVE strip(_)
strip(s) ==
  IF s = <<>> THEN s
  ELSE IF Head(s) = " " THEN strip(Tail(s))
  ELSE IF s[Len(s)] = " " THEN strip(SubSeq(s, 1, Len(s) - 1))
  ELSE s

RECURSIVE StrLess(_, _)
StrLess(s, t) ==
  IF t = <<>> THEN FALSE
  ELSE IF s = <<>> THEN TRUE
  ELSE IF Ord(Head(s)) # Ord(Head(t)) THEN Ord(Head(s)) < Ord(Head(t))
  ELSE StrLess(Tail(s), Tail(t))

RECURSIVE Flatten(_)
Flatten(ss) == IF ss = <<>> THEN <<>> ELSE Head(ss) \o Flatten(Tail(ss))

Range(s) == {s[i] : i \in 1..Len(s)}

RECURSIVE SortedStrings(_)
SortedStrings(S) ==
  IF S = {} THEN <<>>
  ELSE LET m == CHOOSE x \in S : \A y \in S : ~StrLess(y, x)
       IN <<m>> \o SortedStrings(S \ {m})

RECURSIVE SortedNats(_)
SortedNats(S) ==
  IF S = {} THEN <<>>
  ELSE LET m == CHOOSE x \in S : \A y \in S : x <= y
       IN <<m>> \o SortedNats(S \ {m})

RECURSIVE SumSeq(_)
SumSeq(s) == IF s = <<>> THEN 0 ELSE Head(s) + SumSeq(Tail(s))

---------------------------------------------------------------------------
(* Responses *)
NoChart == [title |-> <<>>, year |-> 0, x |-> <<>>, series |-> <<>>,
            inverted |-> FALSE, tight |-> FALSE]

Json(status, data) ==
  [status |-> status, kind |-> "json", error |-> <<>>, data |-> data,
   chart |-> NoChart]

JsonError(status, msg) ==
  [status |-> status, kind |-> "json", error |-> msg, data |-> <<>>,
   chart |-> NoChart]

Text(status, msg) ==
  [status |-> status, kind |-> "text", error |-> msg, data |-> <<>>,
   chart |-> NoChart]

\* An exception that escapes a handler: Flask answers 500 with an HTML page.
Unhandled(exc) ==
  [status |-> 500, kind |-> "html", error |-> <<exc>>, data |-> <<>>,
   chart |-> NoChart]

Png(chart) ==
  [status |-> 200, kind |-> "png", error |-> <<>>, data |-> <<>>,
   chart |-> chart]

NoResponse ==
  [status |-> 0, kind |-> "none", error |-> <<>>, data |-> <<>>,
   chart |-> NoChart]

NoRequest == [route |-> "none", arg |-> None]

---------------------------------------------------------------------------
(* pyplot: the figure registry of a charts process (matplotlib's Gcf).     *)
(* figs is the ordered registry; its last element is the active figure.    *)
NewFigure(num) == [num |-> num, chart |-> NoChart]

NextNum(fs) ==
  IF fs = <<>> THEN 1
  ELSE (CHOOSE m \in {fs[i].num : i \in 1..Len(fs)} :
          \A i \in 1..Len(fs) : fs[i].num <= m) + 1

\* plt.subplots(): a new figure, registered and made the active one.
subplots(fs) == Append(fs, NewFigure(NextNum(fs)))

\* the oldest open figure instead of the active one
gcf_oldest(fs) == IF fs = <<>> THEN 1 ELSE fs[1].num

\* plt.gcf() / plt.gca(): the active figure (a new one if none is open).
gcf(fs) == IF fs = <<>> THEN 1 ELSE fs[Len(fs)].num

FigureOf(fs, num) == (CHOOSE i \in 1..Len(fs) : fs[i].num = num)

\* ax.plot / ax.barh / ax.set_title ... on the figure object `num`.
Draw(fs, num, title, year, x, series) ==
  [i \in 1..Len(fs) |->
     IF fs[i].num = num
     THEN [fs[i] EXCEPT !.chart.title = title, !.chart.year = year,
                        !.chart.x = x, !.chart.series = series]
     ELSE fs[i]]

invert_yaxis(fs, num) ==
  [i \in 1..Len(fs) |->
     IF fs[i].num = num
     THEN [fs[i] EXCEPT !.chart.inverted = ~fs[i].chart.inverted]
     ELSE fs[i]]

tight_layout(fs, num) ==
  [i \in 1..Len(fs) |->
     IF fs[i].num = num THEN [fs[i] EXCEPT !.chart.tight = TRUE] ELSE fs[i]]

\* plt.close(fig)
close(fs, num) == SelectSeq(fs, LAMBDA f : f.num # num)

\* fig.savefig(...) then plt.close(fig); the PNG shows the figure as it is.
save_plot_to_bytesio(fs, num) ==
  [resp |-> Png(fs[FigureOf(fs, num)].chart), figs |-> close(fs, num)]

NoFigure(fs, resp) == [resp |-> resp, figs |-> fs]

---------------------------------------------------------------------------
(* The JSON data services: hiv.py, malaria.py, measles.py                  *)

\* Columns of aids.csv that the services read (after df.columns.str.strip()).
DeathsAll == "Data.AIDS-Related Deaths.All Ages"
InfectionsAll == "Data.New HIV Infections.All Ages"
PlhivTotal == "Data.People Living with HIV.Total"
PrevalenceAdults == "Data.HIV Prevalence.Adults"

AidsDataColumns ==
  {DeathsAll, InfectionsAll, PlhivTotal, PrevalenceAdults,
   "Data.AIDS-Related Deaths.Adults", "Data.AIDS-Related Deaths.Children",
   "Data.HIV Prevalence.Young Men", "Data.HIV Prevalence.Young Women",
   "Data.New HIV Infections.Adults", "Data.New HIV Infections.Children",
   "Data.People Living with HIV.Adults", "Data.People Living with HIV.Children",
   "Data.AIDS-Related Deaths.AIDS Orphans",
   "Data.AIDS-Related Deaths.Female Adults",
   "Data.AIDS-Related Deaths.Male Adults",
   "Data.New HIV Infections.Incidence Rate Among Adults"}

\* hiv.py: the columns kept and the names they get.
required_columns == {"Country", "Year", DeathsAll, InfectionsAll, PlhivTotal}

RenamedColumn(c) ==
  CASE c = "Country" -> "country"
    [] c = "Year" -> "year"
    [] c = DeathsAll -> "aids_related_deaths_all_ages"
    [] c = InfectionsAll -> "new_hiv_infections_all_ages"
    [] c = PlhivTotal -> "people_living_with_hiv_total"
    [] OTHER -> c

\* df[required_columns].copy() and the two renames, for one row.
FilteredRow(row) ==
  LET kept == required_columns
      keys == {RenamedColumn(c) : c \in kept}
  IN [k \in keys |-> row[CHOOSE c \in kept : RenamedColumn(c) = k]]

\* groupby(..., sort=False): the keys in order of first appearance
GroupKeys_unsorted(rows) ==
  LET first == SelectSeq([i \in 1..Len(rows) |-> i],
                 LAMBDA i : /\ rows[i].country # NaN
                            /\ \A j \in 1..(i - 1) : rows[j].country # rows[i].country)
  IN [k \in 1..Len(first) |-> rows[first[k]].country]

\* for key, group in df.groupby(col): the distinct non-missing keys, sorted.
GroupKeys(rows) ==
  SortedStrings({rows[i].country : i \in 1..Len(rows)} \ {NaN})

GroupEntries(rows, records) ==
  LET keys == GroupKeys(rows)
  IN [k \in 1..Len(keys) |->
        [country |-> keys[k],
         data |-> LET idx == SelectSeq([i \in 1..Len(rows) |-> i],
                                       LAMBDA i : rows[i].country = keys[k])
                  IN [j \in 1..Len(idx) |-> records[idx[j]]]]]

get_aids_data(file) ==
  IF ~file.exists THEN JsonError(500, <<"FileNotFoundError">>)
  ELSE LET df_filtered == [i \in 1..Len(file.rows) |-> FilteredRow(file.rows[i])]
       IN Json(200, GroupEntries(df_filtered, df_filtered))

\* df.melt(id_vars='country', var_name='year', value_name='cases'):
\* column by column, the rows of each column in table order.
melt(file) ==
  Flatten([j \in 1..Len(file.header) |->
             [i \in 1..Len(file.rows) |->
                [country |-> file.rows[i].country,
                 year |-> file.header[j],
                 cases |-> file.rows[i].cells[j]]]])

YearCases(melted) ==
  [i \in 1..Len(melted) |-> [year |-> melted[i].year, cases |-> melted[i].cases]]

RECURSIVE DropToDigit(_)
DropToDigit(s) ==
  IF s = <<>> \/ Head(s) \in Digits THEN s ELSE DropToDigit(Tail(s))

RECURSIVE TakeDigits(_)
TakeDigits(s) ==
  IF s = <<>> \/ Head(s) \notin Digits THEN <<>>
  ELSE <<Head(s)>> \o TakeDigits(Tail(s))

RECURSIVE IntOf(_)
IntOf(ds) ==
  IF ds = <<>> THEN 0
  ELSE 10 * IntOf(SubSeq(ds, 1, Len(ds) - 1)) + DigitVal(ds[Len(ds)])

\* the commas left in place
RemoveCommas_kept(s) == s

RemoveCommas(s) == SelectSeq(s, LAMBDA c : c # ",")

\* re.search(r'\d+', s): the leftmost, longest run of digits (<<>> if none).
SearchDigits(s) == TakeDigits(DropToDigit(s))

extract_number(val) ==
  IF val = NaN THEN 0
  ELSE LET match == SearchDigits(RemoveCommas(val))
       IN IF match # <<>> THEN IntOf(match) ELSE 0

get_malaria_data(file) ==
  IF ~file.exists THEN JsonError(500, <<"FileNotFoundError">>)
  ELSE LET melted_df == melt(file)
           cleaned == [i \in 1..Len(melted_df) |->
                         [melted_df[i] EXCEPT !.cases = extract_number(@)]]
       IN Json(200, GroupEntries(cleaned, YearCases(cleaned)))

\* no row dropped
dropna_none(melted) == melted

\* melted_df.dropna(subset=['cases'], inplace=True)
dropna(melted) == SelectSeq(melted, LAMBDA r : r.cases # NaN)

get_death_data(file) ==
  IF ~file.exists THEN JsonError(500, <<"FileNotFoundError">>)
  ELSE LET melted_df == dropna(melt(file))
       IN Json(200, GroupEntries(melted_df, YearCases(melted_df)))

---------------------------------------------------------------------------
(* Data frames of the chart services.  A frame has the year columns of the *)
(* file (header), the rows, and the columns a handler added (extra).       *)
TopN == 10

EmptyDataFrame == [header |-> <<>>, rows |-> <<>>, extra |-> <<>>]

\* df.empty
IsEmpty(df) == df.rows = <<>>

\* .astype(str)
astype_str(val) == IF val = NaN THEN <<"n", "a", "n">> ELSE val

\* .astype(str).str.replace(',', '').str.extract(r'(\d+)').fillna(0).astype(int)
CleanMalariaCell(val) ==
  LET digits == SearchDigits(RemoveCommas(astype_str(val)))
  IN IF digits = <<>> THEN 0 ELSE IntOf(digits)

load_malaria_data(file) ==
  IF ~file.exists THEN EmptyDataFrame
  ELSE [header |-> file.header,
        rows |-> [i \in 1..Len(file.rows) |->
                    [country |-> file.rows[i].country,
                     cells |-> [j \in 1..Len(file.header) |->
                                  CleanMalariaCell(file.rows[i].cells[j])]]],
        extra |-> <<>>]

\* pd.to_numeric(col, errors='coerce') then fillna(0)
to_numeric(val) ==
  IF val # NaN /\ val # <<>> /\ \A i \in 1..Len(val) : val[i] \in Digits
  THEN IntOf(val) ELSE 0

load_measles_data(file) ==
  IF ~file.exists THEN EmptyDataFrame
  ELSE [header |-> file.header,
        rows |-> [i \in 1..Len(file.rows) |->
                    [country |-> file.rows[i].country,
                     cells |-> [j \in 1..Len(file.header) |->
                                  to_numeric(file.rows[i].cells[j])]]],
        extra |-> <<>>]

\* [col for col in df.columns if col not in ['country', 'total_...']], sorted
get_sorted_year_columns(df) == SortedNats(Range(df.header))

ColumnIndex(df, year) == CHOOSE j \in 1..Len(df.header) : df.header[j] = year

\* row[years].values
RowValues(df, row, years) ==
  [k \in 1..Len(years) |-> row.cells[ColumnIndex(df, years[k])]]

\* df[years].sum(): per year, over all rows
ColumnSums(df, years) ==
  [k \in 1..Len(years) |->
     SumSeq([i \in 1..Len(df.rows) |->
               df.rows[i].cells[ColumnIndex(df, years[k])]])]

\* df[years].sum(axis=1): per row, over the year columns
RowTotal(row) == SumSeq(row.cells)

\* df.nlargest(n, key): descending, ties in table order, the first n
RECURSIVE SortDescending(_, _)
SortDescending(idx, key) ==
  IF idx = <<>> THEN <<>>
  ELSE LET p == CHOOSE p \in 1..Len(idx) :
                  /\ \A q \in 1..Len(idx) : key[idx[q]] <= key[idx[p]]
                  /\ \A q \in 1..(p - 1) : key[idx[q]] < key[idx[p]]
       IN <<idx[p]>> \o
          SortDescending([q \in 1..(Len(idx) - 1) |->
                            IF q < p THEN idx[q] ELSE idx[q + 1]], key)

nlargest(n, key) ==
  LET sorted == SortDescending([i \in 1..Len(key) |-> i], key)
  IN SubSeq(sorted, 1, IF Len(sorted) < n THEN Len(sorted) ELSE n)

---------------------------------------------------------------------------
(* Series.str.contains(pat, case=False, na=False): pat is a regular         *)
(* expression.  Over the alphabet of the model the metacharacters are the  *)
(* group parentheses and the dot.                                          *)
RECURSIVE Depths(_, _)
Depths(pat, d) ==
  IF pat = <<>> THEN <<d>>
  ELSE <<d>> \o Depths(Tail(pat), CASE Head(pat) = "(" -> d + 1
                                    [] Head(pat) = ")" -> d - 1
                                    [] OTHER -> d)

\* re.compile(pat) succeeds: every ")" closes a group and no group is left open
re_valid(pat) ==
  LET ds == Depths(pat, 0)
  IN (\A i \in 1..Len(ds) : ds[i] >= 0) /\ ds[Len(ds)] = 0

\* a group without alternatives matches what its content matches
Atoms(pat) == SelectSeq(pat, LAMBDA c : c \notin {"(", ")"})

re_search(pat, s) ==
  LET a == Atoms(pat)
  IN \E off \in 0..(Len(s) - Len(a)) :
       \A k \in 1..Len(a) :
         a[k] = "." \/ LowerChar(a[k]) = LowerChar(s[off + k])

str_contains(s, pat) == s # NaN /\ re_search(pat, s)

\* s.split(',')
RECURSIVE split(_, _)
split(s, acc) ==
  IF s = <<>> THEN <<acc>>
  ELSE IF Head(s) = "," THEN <<acc>> \o split(Tail(s), <<>>)
  ELSE split(Tail(s), Append(acc, Head(s)))

---------------------------------------------------------------------------
(* malaria_charts.py.  A handler takes the file, the figure registry and   *)
(* its query parameter and gives the response and the registry it leaves.  *)
DataNotLoaded == JsonError(500, <<"Data could not be loaded or is empty">>)

Missing(param) == param = None \/ param = <<>>

Line(label, y) == [label |-> label, y |-> y]

malaria_global_deaths(file, fs) ==
  LET df == load_malaria_data(file) IN
  IF IsEmpty(df) THEN NoFigure(fs, DataNotLoaded)
  ELSE LET years_sorted == get_sorted_year_columns(df)
           totals == ColumnSums(df, years_sorted)
           f1 == subplots(fs)
           fig == f1[Len(f1)].num
           f2 == Draw(f1, fig, <<"Global Malaria Deaths Over Time">>, 0,
                      years_sorted, <<Line(<<>>, totals)>>)
       IN save_plot_to_bytesio(f2, fig)

malaria_top_countries(file, fs) ==
  LET df0 == load_malaria_data(file) IN
  IF IsEmpty(df0) THEN NoFigure(fs, DataNotLoaded)
  ELSE LET total_deaths == [i \in 1..Len(df0.rows) |-> RowTotal(df0.rows[i])]
           df == [df0 EXCEPT !.extra = <<"total_deaths">>]
           top == nlargest(TopN, total_deaths)
           f1 == subplots(fs)
           fig == f1[Len(f1)].num
           f2 == Draw(f1, fig, <<"Top 10 Countries by Total Malaria Deaths">>, 0,
                      [k \in 1..Len(top) |-> df.rows[top[k]].country],
                      <<Line(<<>>, [k \in 1..Len(top) |-> total_deaths[top[k]]])>>)
           f3 == invert_yaxis(f2, gcf(f2))
           f4 == tight_layout(f3, gcf(f3))
       IN save_plot_to_bytesio(f4, fig)

\* the exact-match step left out
lower_equal_rows_skipped(df, name) == <<>>

\* df[df['country'].str.lower() == country_name_param.lower()]
lower_equal_rows(df, name) ==
  SelectSeq(df.rows, LAMBDA r : r.country # NaN /\ lower(r.country) = lower(name))

\* df[df['country'].str.contains(country, case=False, na=False)]
contains_rows(df, pat) ==
  SelectSeq(df.rows, LAMBDA r : str_contains(r.country, pat))

\* row.iloc[0]
iloc0(row) == row[1]

malaria_country_profile(file, fs, country_name_param) ==
  IF Missing(country_name_param)
  THEN NoFigure(fs, JsonError(400, <<"Country parameter is required">>))
  ELSE
  LET df == load_malaria_data(file) IN
  IF IsEmpty(df) THEN NoFigure(fs, DataNotLoaded)
  ELSE
  LET exact == lower_equal_rows(df, country_name_param) IN
  IF exact = <<>> /\ ~re_valid(country_name_param)
  THEN NoFigure(fs, Unhandled("re.error"))
  ELSE
  LET row == IF exact # <<>> THEN exact
             ELSE contains_rows(df, country_name_param)
  IN
  IF row = <<>>
  THEN NoFigure(fs, JsonError(404, <<"Country not found: ">> \o country_name_param))
  ELSE LET selected_country_row == iloc0(row)
           years_sorted == get_sorted_year_columns(df)
           deaths == RowValues(df, selected_country_row, years_sorted)
           f1 == subplots(fs)
           fig == f1[Len(f1)].num
           f2 == Draw(f1, fig,
                      <<"Malaria Deaths in ">> \o selected_country_row.country, 0,
                      years_sorted, <<Line(<<>>, deaths)>>)
       IN save_plot_to_bytesio(f2, fig)

\* [c.strip()... for c in countries_param.split(',') if c.strip()]
StrippedNames(countries_param) ==
  LET parts == split(countries_param, <<>>)
      stripped == [i \in 1..Len(parts) |-> strip(parts[i])]
  IN SelectSeq(stripped, LAMBDA c : c # <<>>)

JoinNames(names) ==
  Flatten([i \in 1..Len(names) |->
             IF i = 1 THEN names[i] ELSE <<",", " ">> \o names[i]])

\* the country column compared without .str.lower()
lower_isin_rows_cased(df, names) ==
  SelectSeq(df.rows, LAMBDA r : r.country \in Range(names))

\* df[df['country'].str.lower().isin(country_names)]
lower_isin_rows(df, names) ==
  SelectSeq(df.rows, LAMBDA r : r.country # NaN /\ lower(r.country) \in Range(names))

malaria_compare_countries(file, fs, countries_param) ==
  IF Missing(countries_param)
  THEN NoFigure(fs, JsonError(400, <<"At least one country name is required">>))
  ELSE
  LET stripped == StrippedNames(countries_param)
      country_names == [i \in 1..Len(stripped) |-> lower(stripped[i])]
  IN
  IF country_names = <<>>
  THEN NoFigure(fs, JsonError(400, <<"No valid country names provided.">>))
  ELSE
  LET df == load_malaria_data(file) IN
  IF IsEmpty(df) THEN NoFigure(fs, DataNotLoaded)
  ELSE
  LET selected_df == lower_isin_rows(df, country_names) IN
  IF selected_df = <<>>
  THEN NoFigure(fs, JsonError(404, <<"None of the specified countries found: ">>
                                   \o JoinNames(country_names)))
  ELSE LET years_sorted == get_sorted_year_columns(df)
           f1 == subplots(fs)
           fig == f1[Len(f1)].num
           f2 == Draw(f1, fig,
                      <<"Malaria Deaths Over Time for Selected Countries">>, 0,
                      years_sorted,
                      [i \in 1..Len(selected_df) |->
                         Line(selected_df[i].country,
                              RowValues(df, selected_df[i], years_sorted))])
           f3 == tight_layout(f2, gcf(f2))
       IN save_plot_to_bytesio(f3, fig)

---------------------------------------------------------------------------
(* measles_charts.py *)
measles_global_cases(file, fs) ==
  LET df == load_measles_data(file) IN
  IF IsEmpty(df) THEN NoFigure(fs, DataNotLoaded)
  ELSE LET years == get_sorted_year_columns(df)
           totals == ColumnSums(df, years)
           f1 == subplots(fs)
           fig == f1[Len(f1)].num
           f2 == Draw(f1, fig, <<"Global Measles Cases Over Time">>, 0,
                      years, <<Line(<<>>, totals)>>)
       IN save_plot_to_bytesio(f2, fig)

measles_top_countries(file, fs) ==
  LET df0 == load_measles_data(file) IN
  IF IsEmpty(df0) THEN NoFigure(fs, DataNotLoaded)
  ELSE LET total_cases == [i \in 1..Len(df0.rows) |-> RowTotal(df0.rows[i])]
           df == [df0 EXCEPT !.extra = <<"total_cases">>]
           top == nlargest(TopN, total_cases)
           f1 == subplots(fs)
           fig == f1[Len(f1)].num
           f2 == Draw(f1, fig, <<"Top 10 Countries by Total Measles Cases">>, 0,
                      [k \in 1..Len(top) |-> df.rows[top[k]].country],
                      <<Line(<<>>, [k \in 1..Len(top) |-> total_cases[top[k]]])>>)
           f3 == invert_yaxis(f2, gcf(f2))
           f4 == tight_layout(f3, gcf(f3))
       IN save_plot_to_bytesio(f4, fig)

\* df[df['country'] == country]
equal_rows(df, name) == SelectSeq(df.rows, LAMBDA r : r.country = name)

\* row[years].values.flatten(): the values of every row of `row`, row by row
flatten_values(df, row, years) ==
  Flatten([i \in 1..Len(row) |-> RowValues(df, row[i], years)])

measles_country_profile(file, fs, country) ==
  IF Missing(country)
  THEN NoFigure(fs, JsonError(400, <<"Country parameter is required">>))
  ELSE
  LET df == load_measles_data(file) IN
  IF IsEmpty(df) THEN NoFigure(fs, DataNotLoaded)
  ELSE IF ~re_valid(country) THEN NoFigure(fs, Unhandled("re.error"))
  ELSE
  LET fuzzy == contains_rows(df, country) IN
  IF fuzzy = <<>>
  THEN NoFigure(fs, JsonError(404, <<"Country not found: ">> \o country))
  ELSE LET exact_match_row == equal_rows(df, country)
           row == IF exact_match_row # <<>> THEN exact_match_row ELSE fuzzy
           years == get_sorted_year_columns(df)
           cases == flatten_values(df, row, years)
           f1 == subplots(fs)
           fig == f1[Len(f1)].num
       IN \* ax.plot(years, cases): x and y must have the same length
          IF Len(years) # Len(cases)
          THEN [resp |-> Unhandled("ValueError"), figs |-> f1]
          ELSE LET f2 == Draw(f1, fig, <<"Measles Cases in ">> \o iloc0(row).country,
                              0, years, <<Line(<<>>, cases)>>)
               IN save_plot_to_bytesio(f2, fig)

\* the names compared with letter case ignored
isin_rows_uncased(df, names) ==
  SelectSeq(df.rows,
            LAMBDA r : \E n \in Range(names) : lower(n) = lower(r.country))

\* df[df['country'].isin(country_names)]
isin_rows(df, names) == SelectSeq(df.rows, LAMBDA r : r.country \in Range(names))

measles_compare_countries(file, fs, countries_param) ==
  IF Missing(countries_param)
  THEN NoFigure(fs, JsonError(400, <<"At least one country name is required">>))
  ELSE
  LET country_names == StrippedNames(countries_param) IN
  IF country_names = <<>>
  THEN NoFigure(fs, JsonError(400, <<"No valid country names provided.">>))
  ELSE
  LET df == load_measles_data(file) IN
  IF IsEmpty(df) THEN NoFigure(fs, DataNotLoaded)
  ELSE
  LET selected_df == isin_rows(df, country_names) IN
  IF selected_df = <<>>
  THEN NoFigure(fs, JsonError(404, <<"None of the specified countries found: ">>
                                   \o JoinNames(country_names)))
  ELSE LET years == get_sorted_year_columns(df)
           f1 == subplots(fs)
           fig == f1[Len(f1)].num
           f2 == Draw(f1, fig,
                      <<"Measles Cases Over Time for Selected Countries">>, 0,
                      years,
                      [i \in 1..Len(selected_df) |->
                         Line(selected_df[i].country,
                              RowValues(df, selected_df[i], years))])
           f3 == tight_layout(f2, gcf(f2))
       IN save_plot_to_bytesio(f3, fig)

---------------------------------------------------------------------------
(* charts_api.py (HIV/AIDS charts) *)
NoData == [loaded |-> FALSE, rows |-> <<>>]

\* pd.to_numeric on every 'Data.' column, then df.fillna(0); None on any error
load_data(file) ==
  IF ~file.exists THEN NoData
  ELSE [loaded |-> TRUE,
        rows |-> [i \in 1..Len(file.rows) |->
                    [c \in DOMAIN file.rows[i] |->
                       IF c \in AidsDataColumns THEN to_numeric(file.rows[i][c])
                       ELSE file.rows[i][c]]]]

DataNotFound == Text(404, <<"Data not found">>)

YearIndex(df) == SortedNats({df.rows[i]["Year"] : i \in 1..Len(df.rows)})

\* df.groupby('Year')[col].sum() / .mean(); a mean is the pair <<sum, count>>
GroupByYear(df, col, agg) ==
  LET years == YearIndex(df)
  IN [k \in 1..Len(years) |->
        LET grp == SelectSeq(df.rows, LAMBDA r : r["Year"] = years[k])
            total == SumSeq([i \in 1..Len(grp) |-> grp[i][col]])
        IN IF agg = "sum" THEN <<total>> ELSE <<total, Len(grp)>>]

\* the line charts over the years: one series per (label, column)
yearly_chart(file, fs, title, agg, labels, cols) ==
  LET df == load_data(file) IN
  IF ~df.loaded THEN NoFigure(fs, DataNotFound)
  ELSE LET f1 == subplots(fs)
           fig == f1[Len(f1)].num
           f2 == Draw(f1, fig, <<title>>, 0, YearIndex(df),
                      [s \in 1..Len(cols) |->
                         Line(<<labels[s]>>, GroupByYear(df, cols[s], agg))])
       IN save_plot_to_bytesio(f2, fig)

\* df['Year'].max()
LatestYear(df) ==
  IF df.rows = <<>> THEN 0
  ELSE CHOOSE y \in {df.rows[i]["Year"] : i \in 1..Len(df.rows)} :
         \A i \in 1..Len(df.rows) : df.rows[i]["Year"] <= y

\* df_latest.nlargest(10, col).sort_values(col, ascending=True)
top_chart(file, fs, title, col) ==
  LET df == load_data(file) IN
  IF ~df.loaded THEN NoFigure(fs, DataNotFound)
  ELSE LET latest_year == LatestYear(df)
           df_latest == SelectSeq(df.rows, LAMBDA r : r["Year"] = latest_year)
           key == [i \in 1..Len(df_latest) |-> df_latest[i][col]]
           largest == nlargest(TopN, key)
           top_10 == SortDescending(largest, [i \in 1..Len(key) |-> 0 - key[i]])
           f1 == subplots(fs)
           fig == f1[Len(f1)].num
           f2 == Draw(f1, fig, <<title>>, latest_year,
                      [k \in 1..Len(top_10) |-> df_latest[top_10[k]]["Country"]],
                      <<Line(<<>>, [k \in 1..Len(top_10) |-> key[top_10[k]]])>>)
           f3 == tight_layout(f2, fig)
       IN save_plot_to_bytesio(f3, fig)

aids_country_profile(file, fs, country_name) ==
  LET df == load_data(file) IN
  IF ~df.loaded THEN NoFigure(fs, DataNotFound)
  ELSE
  LET country_data == SelectSeq(df.rows,
                        LAMBDA r : lower(r["Country"]) = lower(country_name))
  IN
  IF country_data = <<>>
  THEN NoFigure(fs, JsonError(404, <<"Data for country not found: ">> \o country_name))
  ELSE LET Col(c) == [i \in 1..Len(country_data) |-> country_data[i][c]]
           f1 == subplots(fs)
           fig == f1[Len(f1)].num
           f2 == Draw(f1, fig, <<"Key AIDS Indicators for ">> \o country_name, 0,
                      Col("Year"),
                      <<Line(<<"AIDS-Related Deaths">>, Col(DeathsAll)),
                        Line(<<"New HIV Infections">>, Col(InfectionsAll)),
                        Line(<<"People Living with HIV">>, Col(PlhivTotal))>>)
           f3 == tight_layout(f2, fig)
       IN save_plot_to_bytesio(f3, fig)

---------------------------------------------------------------------------
(* Inputs: the files a service may find and the parameters a client sends  *)
Services == {"aids_data", "malaria_data", "measles_data",
             "aids_charts", "malaria_charts", "measles_charts"}

SeqsUpTo(S, n) == UNION {[1..k -> S] : k \in 0..n}

\* aids.csv
AidsNames == {<<"b">>, <<"a">>, <<"B">>}
AidsYears == {1990, 1991}
AidsProfiles ==
  {[c \in AidsDataColumns |-> <<"1">>],
   [c \in AidsDataColumns |->
      CASE c = DeathsAll -> NaN
        [] c = InfectionsAll -> <<"x">>
        [] c = PlhivTotal -> <<"1", "2">>
        [] OTHER -> <<"2">>]}

AidsRow(name, year, profile) ==
  [c \in {"Country", "Year"} \cup AidsDataColumns |->
     CASE c = "Country" -> name [] c = "Year" -> year [] OTHER -> profile[c]]

AidsRows == {AidsRow(n, y, p) : n \in AidsNames, y \in AidsYears, p \in AidsProfiles}

AidsFiles ==
  {[exists |-> FALSE, rows |-> <<>>]}
  \cup {[exists |-> TRUE, rows |-> rs] : rs \in SeqsUpTo(AidsRows, MaxRows)}

\* malaria_data.csv / data.csv as the data services see them: the cells vary
DataNames == {<<"b">>, <<"a">>, NaN}
Cells == {NaN, <<"1", "2">>, <<"1", ",", "2">>, <<"x">>, <<"2", "x", "1">>,
          <<"x", ",", "1">>, <<",">>}
DataHeaders == {<<2001>>, <<2001, 2000>>}

WideRows(names, cellrows) == {[country |-> n, cells |-> cs] : n \in names, cs \in cellrows}

MissingFile == [exists |-> FALSE, header |-> <<>>, rows |-> <<>>]

\* at most MaxRows rows and MaxCells year cells in a table
DataFiles ==
  {MissingFile}
  \cup UNION {{[exists |-> TRUE, header |-> h, rows |-> rs] :
                 rs \in SeqsUpTo(WideRows(DataNames, [1..Len(h) -> Cells]),
                                 IF MaxCells \div Len(h) < MaxRows
                                 THEN MaxCells \div Len(h) ELSE MaxRows)} :
              h \in DataHeaders}

\* the same files as the chart services see them: the country names vary
ChartNames == {<<"a", "b">>, <<"A", "b">>, <<"b">>, <<"a", "(", "b", ")">>}
ChartCellRows == {<< <<"1">>, <<"1", ",", "2">> >>, << <<"2">>, NaN >>}
ChartHeader == <<2001, 2000>>

ChartFiles ==
  {MissingFile}
  \cup {[exists |-> TRUE, header |-> ChartHeader, rows |-> rs] :
          rs \in SeqsUpTo(WideRows(ChartNames, ChartCellRows), MaxRows)}

FilesOf(svc) ==
  CASE svc \in {"aids_data", "aids_charts"} -> AidsFiles
    [] svc \in {"malaria_data", "measles_data"} -> DataFiles
    [] OTHER -> ChartFiles

\* ?country=...
CountryParams ==
  {None, <<>>, <<"a", "b">>, <<"A", "B">>, <<"b">>, <<"(">>,
   <<"a", "(", "b", ")">>, <<".">>, <<"x">>}

\* ?countries=...
CountriesParams ==
  {None, <<>>, <<" ", ",", " ">>, <<"a", "b">>, <<" ", "A", "B", " ", ",", "x">>,
   <<"x">>, <<"b", ",", "a", "b">>, <<"x", ",", ",", "B">>}

\* /api/charts/country_profile/<country_name>
AidsCountryParams == {<<"a">>, <<"A">>, <<"b">>, <<"x">>}

---------------------------------------------------------------------------
(* One service process handling requests one at a time *)
Init ==
  /\ service \in Services
  /\ csv \in FilesOf(service)
  /\ figs = <<>>
  /\ request = NoRequest
  /\ response = NoResponse
  /\ threads = <<>>

\* A request to `route` of service `svc` is handled to its end.  A figure a
\* failed handler leaves open stays registered; MaxFigs caps how many.
Serve(svc, route, arg, result) ==
  /\ service = svc
  /\ Len(result.figs) <= MaxFigs
  /\ request' = [route |-> route, arg |-> arg]
  /\ response' = result.resp
  /\ figs' = result.figs
  /\ UNCHANGED <<service, csv, threads>>

GetAidsData ==
  Serve("aids_data", "/api/aids/data", None, NoFigure(figs, get_aids_data(csv)))

GetMalariaData ==
  Serve("malaria_data", "/api/malaria/data", None,
        NoFigure(figs, get_malaria_data(csv)))

GetDeathData ==
  Serve("measles_data", "/api/measles/data", None,
        NoFigure(figs, get_death_data(csv)))

MalariaGlobalDeaths ==
  Serve("malaria_charts", "global_deaths", None, malaria_global_deaths(csv, figs))

MalariaTopCountries ==
  Serve("malaria_charts", "top_countries", None, malaria_top_countries(csv, figs))

MalariaCountryProfile ==
  \E p \in CountryParams :
    Serve("malaria_charts", "country_profile", p,
          malaria_country_profile(csv, figs, p))

MalariaCompareCountries ==
  \E p \in CountriesParams :
    Serve("malaria_charts", "compare_countries", p,
          malaria_compare_countries(csv, figs, p))

MeaslesGlobalCases ==
  Serve("measles_charts", "global_cases", None, measles_global_cases(csv, figs))

MeaslesTopCountries ==
  Serve("measles_charts", "top_countries", None, measles_top_countries(csv, figs))

MeaslesCountryProfile ==
  \E p \in CountryParams :
    Serve("measles_charts", "country_profile", p,
          measles_country_profile(csv, figs, p))

MeaslesCompareCountries ==
  \E p \in CountriesParams :
    Serve("measles_charts", "compare_countries", p,
          measles_compare_countries(csv, figs, p))

\* charts_api.py: route, aggregate, series labels and columns of each line chart
YearlyRoutes ==
  {<<"deaths_global", "sum", <<"">>, <<DeathsAll>>>>,
   <<"deaths_by_group", "sum", <<"Adults (15+)", "Children (0-14)">>,
     <<"Data.AIDS-Related Deaths.Adults", "Data.AIDS-Related Deaths.Children">>>>,
   <<"prevalence_global", "mean", <<"">>, <<PrevalenceAdults>>>>,
   <<"prevalence_young", "mean", <<"Young Men (15-24)", "Young Women (15-24)">>,
     <<"Data.HIV Prevalence.Young Men", "Data.HIV Prevalence.Young Women">>>>,
   <<"infections_global", "sum", <<"">>, <<InfectionsAll>>>>,
   <<"infections_by_group", "sum", <<"Adults (15+)", "Children (0-14)">>,
     <<"Data.New HIV Infections.Adults", "Data.New HIV Infections.Children">>>>,
   <<"plhiv_global", "sum", <<"">>, <<PlhivTotal>>>>,
   <<"plhiv_by_group", "sum", <<"Adults (15+)", "Children (0-14)">>,
     <<"Data.People Living with HIV.Adults", "Data.People Living with HIV.Children">>>>,
   <<"aids_orphans", "sum", <<"">>, <<"Data.AIDS-Related Deaths.AIDS Orphans">>>>,
   <<"deaths_by_gender", "sum", <<"Female Adults", "Male Adults">>,
     <<"Data.AIDS-Related Deaths.Female Adults", "Data.AIDS-Related Deaths.Male Adults">>>>,
   <<"incidence_rate", "mean", <<"">>,
     <<"Data.New HIV Infections.Incidence Rate Among Adults">>>>}

\* charts_api.py: route and column of each top-10 bar chart
TopRoutes ==
  {<<"top_deaths", DeathsAll>>, <<"top_infections", InfectionsAll>>,
   <<"top_plhiv", PlhivTotal>>, <<"top_prevalence", PrevalenceAdults>>}

AidsYearlyChart ==
  \E r \in YearlyRoutes :
    Serve("aids_charts", r[1], None, yearly_chart(csv, figs, r[1], r[2], r[3], r[4]))

AidsTopChart ==
  \E r \in TopRoutes :
    Serve("aids_charts", r[1], None, top_chart(csv, figs, r[1], r[2]))

AidsCountryProfile ==
  \E p \in AidsCountryParams :
    Serve("aids_charts", "country_profile", p, aids_country_profile(csv, figs, p))

Next ==
  \/ GetAidsData
  \/ GetMalariaData
  \/ GetDeathData
  \/ MalariaGlobalDeaths
  \/ MalariaTopCountries
  \/ MalariaCountryProfile
  \/ MalariaCompareCountries
  \/ MeaslesGlobalCases
  \/ MeaslesTopCountries
  \/ MeaslesCountryProfile
  \/ MeaslesCompareCountries
  \/ AidsYearlyChart
  \/ AidsTopChart
  \/ AidsCountryProfile

Spec == Init /\ [][Next]_vars

---------------------------------------------------------------------------
(* Properties of the data services *)
Count(s, x) == Cardinality({i \in 1..Len(s) : s[i] = x})

Served(svc) == service = svc /\ request.route # "none"

AidsRecordKeys ==
  {"country", "year", "aids_related_deaths_all_ages",
   "new_hiv_infections_all_ages", "people_living_with_hiv_total"}

AidsRecordOf(row) ==
  [country |-> row["Country"], year |-> row["Year"],
   aids_related_deaths_all_ages |-> row[DeathsAll],
   new_hiv_infections_all_ages |-> row[InfectionsAll],
   people_living_with_hiv_total |-> row[PlhivTotal]]

RECURSIVE Pow10(_)
Pow10(n) == IF n = 0 THEN 1 ELSE 10 * Pow10(n - 1)

\* The value of the first run of digits of s, 0 when s holds no digit.
FirstRunValue(s) ==
  IF \A i \in 1..Len(s) : s[i] \notin Digits THEN 0
  ELSE LET a == CHOOSE a \in 1..Len(s) :
                  s[a] \in Digits /\ \A i \in 1..(a - 1) : s[i] \notin Digits
           b == CHOOSE b \in a..Len(s) :
                  /\ \A i \in a..b : s[i] \in Digits
                  /\ (b = Len(s) \/ s[b + 1] \notin Digits)
       IN SumSeq([k \in 1..(b - a + 1) |-> DigitVal(s[a + k - 1]) * Pow10(b - a + 1 - k)])

ExpectedCases(cell) ==
  IF cell = NaN THEN 0
  ELSE FirstRunValue(SelectSeq(cell, LAMBDA c : c # ","))

RowsOf(name) == {i \in 1..Len(csv.rows) : csv.rows[i].country = name}

\* C8: /api/malaria/data gives, for every country row of the wide table, one
\* {year, cases} record per year column; cases is the non-negative integer
\* read from the first run of digits of the cell once commas are removed,
\* and 0 for a missing cell or a cell without a digit.
C8_MalariaDataRecords ==
  (Served("malaria_data") /\ csv.exists) =>
    LET out == response.data
    IN /\ response.status = 200
       /\ \A i \in 1..Len(csv.rows) :
            csv.rows[i].country # NaN =>
              \E k \in 1..Len(out) : out[k].country = csv.rows[i].country
       /\ \A k \in 1..Len(out) :
            /\ RowsOf(out[k].country) # {}
            /\ Len(out[k].data) = Cardinality(RowsOf(out[k].country)) * Len(csv.header)
            /\ \A r \in 1..Len(out[k].data) :
                 /\ DOMAIN out[k].data[r] = {"year", "cases"}
                 /\ out[k].data[r].cases \in Nat
            /\ \A j \in 1..Len(csv.header) :
                 \A v \in {ExpectedCases(c) : c \in Cells}
                          \cup {out[k].data[r].cases : r \in 1..Len(out[k].data)} :
                   Count(out[k].data, [year |-> csv.header[j], cases |-> v])
                     = Cardinality({i \in RowsOf(out[k].country) :
                                      ExpectedCases(csv.rows[i].cells[j]) = v})

C8_Witness ==
  /\ Served("malaria_data") /\ csv.exists
  /\ Len(csv.header) = 2
  /\ Len(csv.rows) = 1
  /\ csv.rows[1].country = <<"a">>
  /\ csv.rows[1].cells = << <<"1", ",", "2">>, <<"x">> >>
  /\ Len(response.data) = 1
  /\ response.data[1].data = <<[year |-> 2001, cases |-> 12],
                               [year |-> 2000, cases |-> 0]>>

\* C9: /api/measles/data never returns a record without cases: a country's
\* data holds one {year, cases} record per non-missing year cell of that
\* country, and a country whose cells are all missing has no entry.
C9_MeaslesDataNoMissing ==
  (Served("measles_data") /\ csv.exists) =>
    LET out == response.data
        Present(name) == {<<i, j>> \in (1..Len(csv.rows)) \X (1..Len(csv.header)) :
                            csv.rows[i].country = name /\ csv.rows[i].cells[j] # NaN}
    IN /\ response.status = 200
       /\ {out[k].country : k \in 1..Len(out)}
            = {csv.rows[i].country : i \in 1..Len(csv.rows)}
                \ ({NaN} \cup {n \in DataNames : Present(n) = {}})
       /\ \A k \in 1..Len(out) :
            /\ Len(out[k].data) = Cardinality(Present(out[k].country))
            /\ \A r \in 1..Len(out[k].data) : out[k].data[r].cases # NaN
            /\ \A p \in Present(out[k].country) :
                 LET rec == [year |-> csv.header[p[2]],
                             cases |-> csv.rows[p[1]].cells[p[2]]]
                 IN Count(out[k].data, rec)
                      = Cardinality({q \in Present(out[k].country) :
                                       /\ csv.header[q[2]] = csv.header[p[2]]
                                       /\ csv.rows[q[1]].cells[q[2]]
                                            = csv.rows[p[1]].cells[p[2]]})

C9_Witness ==
  /\ Served("measles_data") /\ csv.exists
  /\ Len(csv.rows) = 2
  /\ csv.rows[1].country = <<"a">> /\ csv.rows[1].cells = <<NaN>>
  /\ csv.rows[2].country = <<"b">> /\ csv.rows[2].cells # <<NaN>>
  /\ Len(response.data) = 1
  /\ response.data[1].country = <<"b">>

---------------------------------------------------------------------------
(* Properties of the chart services *)
Charted(svc, route) == Served(svc) /\ request.route = route

Loaded == csv.exists /\ csv.rows # <<>>

MinOf(S) == CHOOSE m \in S : \A n \in S : m <= n

\* s holds q as a contiguous run of characters, letter case ignored
ContainsCI(s, q) ==
  \E off \in 0..(Len(s) - Len(q)) :
    \A k \in 1..Len(q) : LowerChar(q[k]) = LowerChar(s[off + k])

\* The names a 'countries' parameter asks for: each comma-separated piece
\* without its surrounding blanks, the blank pieces left out.
Requested(s) ==
  IF Missing(s) THEN {}
  ELSE {SubSeq(s, p[3], p[4]) :
          p \in {p \in (1..Len(s)) \X (1..Len(s)) \X (1..Len(s)) \X (1..Len(s)) :
                   /\ p[1] <= p[3] /\ p[3] <= p[4] /\ p[4] <= p[2]
                   /\ (p[1] = 1 \/ s[p[1] - 1] = ",")
                   /\ (p[2] = Len(s) \/ s[p[2] + 1] = ",")
                   /\ \A i \in p[1]..p[2] : s[i] # ","
                   /\ s[p[3]] # " " /\ s[p[4]] # " "
                   /\ \A i \in p[1]..(p[3] - 1) : s[i] = " "
                   /\ \A i \in (p[4] + 1)..p[2] : s[i] = " "}}

\* the values plotted for row i of a malaria table, oldest year first
MalariaValues(i) ==
  LET years == SortedNats(Range(csv.header))
  IN [k \in 1..Len(years) |->
        ExpectedCases(csv.rows[i].cells[CHOOSE j \in 1..Len(csv.header) :
                                           csv.header[j] = years[k]])]

MalariaDrawn(i) ==
  /\ response.status = 200
  /\ response.kind = "png"
  /\ response.chart.title = <<"Malaria Deaths in ">> \o csv.rows[i].country
  /\ Len(response.chart.series) = 1
  /\ response.chart.series[1].y = MalariaValues(i)

\* C3: the malaria country_profile draws the first row, in dataset order,
\* whose name equals the query case-insensitively; only when there is no
\* such row does it search, and then it draws the first row the search finds.
C3_MalariaProfileMatch ==
  (Charted("malaria_charts", "country_profile") /\ ~Missing(request.arg) /\ Loaded) =>
    LET q == request.arg
        exact == {i \in 1..Len(csv.rows) : lower(csv.rows[i].country) = lower(q)}
        found == {i \in 1..Len(csv.rows) : str_contains(csv.rows[i].country, q)}
    IN /\ exact # {} => MalariaDrawn(MinOf(exact))
       /\ (exact = {} /\ re_valid(q) /\ found # {}) => MalariaDrawn(MinOf(found))
       /\ (exact = {} /\ re_valid(q) /\ found = {}) => response.status = 404

C3_Witness ==
  /\ Charted("malaria_charts", "country_profile")
  /\ request.arg = <<"b">>
  /\ Len(csv.rows) = 2
  /\ csv.rows[1].country = <<"a", "b">>
  /\ csv.rows[2].country = <<"b">>
  /\ MalariaDrawn(2)

SeriesLabels == [k \in 1..Len(response.chart.series) |-> response.chart.series[k].label]

CountriesAt(idx) ==
  LET order == SortedNats(idx)
  IN [k \in 1..Len(order) |-> csv.rows[order[k]].country]

\* C5: the malaria compare_countries answers 400 to a 'countries' parameter
\* that names nothing; 404 only when no requested name equals a country
\* case-insensitively; and a PNG of exactly the matched rows otherwise.
C5_MalariaCompare ==
  Charted("malaria_charts", "compare_countries") =>
    LET req == Requested(request.arg)
        matched == {i \in 1..Len(csv.rows) :
                      \E n \in req : lower(n) = lower(csv.rows[i].country)}
    IN /\ req = {} => response.status = 400
       /\ response.status = 404 => (req # {} /\ matched = {})
       /\ matched # {} =>
            /\ response.status = 200
            /\ response.kind = "png"
            /\ SeriesLabels = CountriesAt(matched)

C5_Witness ==
  /\ Charted("malaria_charts", "compare_countries")
  /\ request.arg = <<" ", "A", "B", " ", ",", "x">>
  /\ Len(csv.rows) = 2
  /\ csv.rows[1].country = <<"b">>
  /\ response.status = 200
  /\ SeriesLabels = <<csv.rows[2].country>>

Occurs(n, msg) ==
  \E off \in 0..(Len(msg) - Len(n)) : \A k \in 1..Len(n) : msg[off + k] = n[k]

MeaslesCompareCommon(req, matched) ==
  /\ req = {} => response.status = 400
  /\ response.status = 404 => \A n \in req : Occurs(n, response.error)
  /\ matched # {} =>
       /\ response.status = 200
       /\ response.kind = "png"
       /\ SeriesLabels = CountriesAt(matched)

\* C6 as stated: 404 exactly when no requested name equals a country name.
C6_Original ==
  Charted("measles_charts", "compare_countries") =>
    LET req == Requested(request.arg)
        matched == {i \in 1..Len(csv.rows) : csv.rows[i].country \in req}
    IN /\ MeaslesCompareCommon(req, matched)
       /\ req # {} => (response.status = 404 <=> matched = {})

\* C6 (amended): the measles compare_countries answers 400 to a 'countries'
\* parameter that names nothing; otherwise 500 when the file cannot be loaded
\* or has no row; otherwise 404, listing every requested name, exactly when
\* no requested name equals a country name (case-sensitively); otherwise a
\* PNG of exactly the matched rows.
C6_MeaslesCompare ==
  Charted("measles_charts", "compare_countries") =>
    LET req == Requested(request.arg)
        matched == {i \in 1..Len(csv.rows) : csv.rows[i].country \in req}
    IN /\ MeaslesCompareCommon(req, matched)
       /\ (req # {} /\ ~Loaded) => response.status = 500
       /\ (req # {} /\ Loaded) => (response.status = 404 <=> matched = {})

C6_Witness ==
  /\ Charted("measles_charts", "compare_countries")
  /\ request.arg = <<" ", "A", "B", " ", ",", "x">>
  /\ Len(csv.rows) = 1
  /\ csv.rows[1].country = <<"a", "b">>
  /\ response.status = 404
  /\ Occurs(<<"A", "B">>, response.error)
  /\ Occurs(<<"x">>, response.error)

\* a country the query names: equal to it, or holding it, letter case ignored
NamedBy(q) ==
  {i \in 1..Len(csv.rows) :
     lower(csv.rows[i].country) = lower(q) \/ ContainsCI(csv.rows[i].country, q)}

\* no reading of the query finds a country: no name equals or holds it, and as
\* a pattern it finds none either
NoMatch(q) ==
  /\ NamedBy(q) = {}
  /\ re_valid(q) => \A i \in 1..Len(csv.rows) : ~str_contains(csv.rows[i].country, q)

\* C2 as stated: in both country_profile endpoints a missing or empty country
\* gives 400; otherwise an unloadable or row-less file gives 500; otherwise a
\* query that matches no country gives 404; only otherwise is a PNG returned.
C2_CheckOrder ==
  (\E svc \in {"malaria_charts", "measles_charts"} : Charted(svc, "country_profile")) =>
    LET q == request.arg
    IN /\ Missing(q) => response.status = 400
       /\ (~Missing(q) /\ ~Loaded) => response.status = 500
       /\ (~Missing(q) /\ Loaded /\ NoMatch(q)) => response.status = 404
       /\ response.status = 200 => (~Missing(q) /\ Loaded /\ ~NoMatch(q))

\* C4 as stated: the measles country_profile draws the country whose name
\* equals the query; otherwise, when names contain the query, it draws the
\* first of them and returns a PNG however many matched.
C4_MeaslesProfileMatch ==
  (Charted("measles_charts", "country_profile") /\ ~Missing(request.arg) /\ Loaded) =>
    LET q == request.arg
        exact == {i \in 1..Len(csv.rows) : csv.rows[i].country = q}
        holding == {i \in 1..Len(csv.rows) : ContainsCI(csv.rows[i].country, q)}
        Drawn(i) == /\ response.status = 200
                    /\ response.kind = "png"
                    /\ response.chart.title
                         = <<"Measles Cases in ">> \o csv.rows[i].country
    IN /\ exact # {} => Drawn(MinOf(exact))
       /\ (exact = {} /\ holding # {}) => Drawn(MinOf(holding))

---------------------------------------------------------------------------
(* Independence of requests *)

\* The routing tables (@app.route): the handler of a request, on file `file`
\* with the figure registry `fs`.
Dispatch(svc, file, fs, req) ==
  CASE svc = "aids_data" -> NoFigure(fs, get_aids_data(file))
    [] svc = "malaria_data" -> NoFigure(fs, get_malaria_data(file))
    [] svc = "measles_data" -> NoFigure(fs, get_death_data(file))
    [] svc = "malaria_charts" ->
         (CASE req.route = "global_deaths" -> malaria_global_deaths(file, fs)
            [] req.route = "top_countries" -> malaria_top_countries(file, fs)
            [] req.route = "country_profile" ->
                 malaria_country_profile(file, fs, req.arg)
            [] OTHER -> malaria_compare_countries(file, fs, req.arg))
    [] svc = "measles_charts" ->
         (CASE req.route = "global_cases" -> measles_global_cases(file, fs)
            [] req.route = "top_countries" -> measles_top_countries(file, fs)
            [] req.route = "country_profile" ->
                 measles_country_profile(file, fs, req.arg)
            [] OTHER -> measles_compare_countries(file, fs, req.arg))
    [] OTHER ->
         IF req.route = "country_profile"
         THEN aids_country_profile(file, fs, req.arg)
         ELSE IF \E r \in TopRoutes : r[1] = req.route
         THEN LET r == CHOOSE r \in TopRoutes : r[1] = req.route
              IN top_chart(file, fs, r[1], r[2])
         ELSE LET r == CHOOSE r \in YearlyRoutes : r[1] = req.route
              IN yearly_chart(file, fs, r[1], r[2], r[3], r[4])

YearAxisRoutes == {"global_deaths", "global_cases", "country_profile", "compare_countries"}

\* C1: whatever requests came before, the response is the one the same
\* request gets from a freshly started process: it depends on the file and
\* the request only.  In particular the year axis of a chart never shows a
\* column (total_deaths, total_cases) that an earlier request added.
C1_ResponseIndependent ==
  request.route # "none" =>
    /\ response = Dispatch(service, csv, <<>>, request).resp
    /\ (service \in {"malaria_charts", "measles_charts"}
        /\ request.route \in YearAxisRoutes /\ response.status = 200)
         => response.chart.x = SortedNats(Range(csv.header))

\* a top_countries chart answered while figures of failed requests are open
C1_Witness ==
  /\ Charted("measles_charts", "top_countries")
  /\ response.status = 200
  /\ response.chart.inverted
  /\ Len(figs) = MaxFigs

---------------------------------------------------------------------------
(* A charts process handling requests in threads (app.run serves each       *)
(* request in its own thread).  A handler that draws runs in steps: it      *)
(* opens and draws its figure, makes its calls through pyplot's current     *)
(* figure, then saves and closes its figure.  hits records the figure each  *)
(* pyplot call of the request in progress acted on.                         *)
MaxNum == 4

Idle == [pc |-> "idle", req |-> NoRequest, fig |-> 0, hits |-> <<>>]

ThreadedServices == {"malaria_charts", "measles_charts"}

ThreadedFiles == {f \in ChartFiles : f.exists /\ Len(f.rows) = 1}

ThreadedRequests ==
  {[route |-> "top_countries", arg |-> None],
   [route |-> "compare_countries", arg |-> <<"a", "b">>],
   [route |-> "global", arg |-> None]}

InitThreaded ==
  /\ service \in ThreadedServices
  /\ csv \in ThreadedFiles
  /\ figs = <<>>
  /\ request = NoRequest
  /\ response = NoResponse
  /\ threads = [t \in 1..MaxThreads |-> Idle]

RouteOf(svc, req) ==
  IF req.route # "global" THEN req
  ELSE [req EXCEPT !.route = IF svc = "malaria_charts" THEN "global_deaths"
                             ELSE "global_cases"]

\* load the frame, compute, plt.subplots(), ax.plot / ax.barh / ax.set_...
Begin(t) ==
  /\ threads[t].pc = "idle"
  /\ NextNum(figs) <= MaxNum
  /\ \E r \in ThreadedRequests :
       LET req == RouteOf(service, r)
           alone == Dispatch(service, csv, <<>>, req).resp
           opened == subplots(figs)
           fig == opened[Len(opened)].num
       IN IF alone.kind # "png"
          THEN /\ request' = req
               /\ response' = alone
               /\ UNCHANGED <<figs, threads>>
          ELSE /\ figs' = Draw(opened, fig, alone.chart.title, alone.chart.year,
                               alone.chart.x, alone.chart.series)
               /\ threads' = [threads EXCEPT ![t] =
                    [pc |-> CASE r.route = "top_countries" -> "invert"
                              [] r.route = "compare_countries" -> "tight"
                              [] OTHER -> "save",
                     req |-> req, fig |-> fig, hits |-> <<>>]]
               /\ UNCHANGED <<request, response>>
  /\ UNCHANGED <<service, csv>>

\* plt.gca().invert_yaxis()
InvertYaxis(t) ==
  /\ threads[t].pc = "invert"
  /\ LET target == gcf(figs)
     IN /\ figs' = invert_yaxis(figs, target)
        /\ threads' = [threads EXCEPT ![t].pc = "tight",
                                      ![t].hits = Append(@, target)]
  /\ UNCHANGED <<service, csv, request, response>>

\* plt.tight_layout()
TightLayout(t) ==
  /\ threads[t].pc = "tight"
  /\ LET target == gcf(figs)
     IN /\ figs' = tight_layout(figs, target)
        /\ threads' = [threads EXCEPT ![t].pc = "save",
                                      ![t].hits = Append(@, target)]
  /\ UNCHANGED <<service, csv, request, response>>

\* return send_file(save_plot_to_bytesio(fig), mimetype='image/png')
Save(t) ==
  /\ threads[t].pc = "save"
  /\ LET done == save_plot_to_bytesio(figs, threads[t].fig)
     IN /\ figs' = done.figs
        /\ response' = done.resp
        /\ request' = threads[t].req
  /\ threads' = [threads EXCEPT ![t] = Idle]
  /\ UNCHANGED <<service, csv>>

NextThreaded ==
  \E t \in 1..MaxThreads :
    \/ Begin(t)
    \/ InvertYaxis(t)
    \/ TightLayout(t)
    \/ Save(t)

SpecThreaded == InitThreaded /\ [][NextThreaded]_vars

\* C10: with requests handled concurrently, every call a request makes
\* through pyplot's current figure (plt.gca().invert_yaxis(),
\* plt.tight_layout()) acts on the figure that request created.
C10_OwnFigure ==
  \A t \in DOMAIN threads :
    \A k \in 1..Len(threads[t].hits) : threads[t].hits[k] = threads[t].fig

====
